---- MODULE Spec2Model ----
(***************************************************************************)
(* A model of the PyRedis key-value store (src/redis_store.py) and of the  *)
(* line-protocol server in front of it (src/redis_server.py).              *)
(*                                                                         *)
(* Time is counted in milliseconds.  A Python value returned by a store    *)
(* command is a record [kind, s, n, l]: None, a str, an int or a list.     *)
(* A stored value is a record [t, s, l, h]: a str, a deque or a dict.      *)
(***************************************************************************)
EXTENDS Integers, Sequences, FiniteSets, TLC

VARIABLES
    data,          \* PyRedisStore._data: key -> stored value
    expirations,   \* PyRedisStore._expirations: key -> deadline (ms)
    now,           \* time.time(), in milliseconds
    last,          \* the last store command called directly, and what it met
    touched,       \* keys ever given to EXPIRE or to SET with EX
    sock,          \* per connection: lines written by the client, not yet read
    sent,          \* per connection: every line the client has written
    buffer,        \* per connection: handle_connection's buffer, in lines
    pc,            \* per connection: where handle_connection stands
    cur,           \* per connection: the stripped line being served
    response,      \* per connection: the response of the line being served
    seen,          \* per connection: the store as it was when the lock was taken
    out,           \* per connection: the replies written to the socket
    store_lock,    \* the holder of store_lock, or NoConn
    disk           \* the contents of the dump file

storeVars == <<data, expirations, now>>
histVars == <<last, touched>>
connVars == <<sock, sent, buffer, pc, cur, response, seen, out, store_lock, disk>>
vars == <<data, expirations, now, last, touched, sock, sent, buffer, pc, cur,
          response, seen, out, store_lock, disk>>

----------------------------------------------------------------------------
(* Bounds of the exploration *)

MaxLen == 3        \* a push is explored while the list stays this short
MaxTicks == 3      \* the clock is advanced this many times
MaxSend == 1       \* lines a client writes in the dispatch exploration
MaxPairs == 2      \* lines a client writes in the concurrency exploration

MsPerSec == 1000
Tick == MsPerSec \div 2

Keys == {"k1", "k2"}
TimedKeys == {"k1"}
Values == {"a", "b"}
Fields == {"f", "g"}
Conns == {"c1", "c2"}
NoConn == "none"

----------------------------------------------------------------------------
(* Python values *)

EmptyHash == [f \in {} |-> ""]

PyNone == [kind |-> "none", s |-> "", n |-> 0, l |-> <<>>]
PyStr(x) == [kind |-> "str", s |-> x, n |-> 0, l |-> <<>>]
PyInt(i) == [kind |-> "int", s |-> "", n |-> i, l |-> <<>>]
PyList(q) == [kind |-> "list", s |-> "", n |-> 0, l |-> q]

NoVal == [t |-> "none", s |-> "", l |-> <<>>, h |-> EmptyHash]
StrVal(x) == [t |-> "str", s |-> x, l |-> <<>>, h |-> EmptyHash]
ListVal(q) == [t |-> "list", s |-> "", l |-> q, h |-> EmptyHash]
HashVal(m) == [t |-> "hash", s |-> "", l |-> <<>>, h |-> m]

\* dict operations
DictGet(d, k) == IF k \in DOMAIN d THEN d[k] ELSE NoVal
DictSet(d, k, v) == [x \in DOMAIN d \cup {k} |-> IF x = k THEN v ELSE d[x]]
DictDel(d, k) == [x \in DOMAIN d \ {k} |-> d[x]]

\* int(s): the integer a token parses to; a token outside the table raises ValueError
IntTokens == {"-3", "-2", "-1", "0", "1", "2", "100", "1000", "1500"}
IsInt(s) == s \in IntTokens
ParseInt(s) ==
    CASE s = "-3" -> -3
      [] s = "-2" -> -2
      [] s = "-1" -> -1
      [] s = "0" -> 0
      [] s = "1" -> 1
      [] s = "2" -> 2
      [] s = "100" -> 100
      [] s = "1000" -> 1000
      [] s = "1500" -> 1500
      [] OTHER -> 0

WRONGTYPE == "WRONGTYPE Operation against a key holding the wrong kind of value"

\* the result of a store command: the store afterwards and the value returned
Ret(d, e, r) == [data |-> d, exp |-> e, res |-> r]

----------------------------------------------------------------------------
(* PyRedisStore *)

\* _delete_key_internal: the store afterwards, and whether the key held a value
_delete_key_keep_deadline(d, e, key) ==
    [data |-> DictDel(d, key), exp |-> e, deleted |-> key \in DOMAIN d]

_delete_key_internal(d, e, key) ==
    [data |-> DictDel(d, key), exp |-> DictDel(e, key), deleted |-> key \in DOMAIN d]

_check_expiry_never(d, e, t, key) ==
    [data |-> d, exp |-> e, expired |-> FALSE]

_check_expiry(d, e, t, key) ==
    IF key \in DOMAIN e /\ e[key] < t
    THEN LET x == _delete_key_internal(d, e, key)
         IN  [data |-> x.data, exp |-> x.exp, expired |-> TRUE]
    ELSE [data |-> d, exp |-> e, expired |-> FALSE]

_get_value_untyped(d, e, t, key, expected_type) ==
    LET c == _check_expiry(d, e, t, key)
    IN  [data |-> c.data, exp |-> c.exp,
         val |-> IF c.expired THEN NoVal ELSE DictGet(c.data, key), err |-> ""]

\* _get_value_or_error: (value, error) and the store afterwards; err "" is None
_get_value_or_error(d, e, t, key, expected_type) ==
    LET c == _check_expiry(d, e, t, key)
        value == DictGet(c.data, key)
    IN  IF c.expired
        THEN [data |-> c.data, exp |-> c.exp, val |-> NoVal, err |-> ""]
        ELSE IF value = NoVal
        THEN [data |-> c.data, exp |-> c.exp, val |-> NoVal, err |-> ""]
        ELSE IF expected_type # "any" /\ value.t # expected_type
        THEN [data |-> c.data, exp |-> c.exp, val |-> NoVal, err |-> WRONGTYPE]
        ELSE [data |-> c.data, exp |-> c.exp, val |-> value, err |-> ""]

\* command_set, line 50: self._data[key] = str(value)
set_write(d, key, value) == DictSet(d, key, StrVal(value))

set_expiry_noclear(d, e, t, key, expire_ms) ==
    IF expire_ms # <<>>
    THEN IF ~IsInt(expire_ms[1]) \/ ParseInt(expire_ms[1]) <= 0
         THEN LET x == _delete_key_internal(d, e, key)
              IN  Ret(x.data, x.exp, PyStr("ERROR: Invalid expiration time format."))
         ELSE Ret(d, DictSet(e, key, t + ParseInt(expire_ms[1])), PyStr("OK"))
    ELSE Ret(d, e, PyStr("OK"))

set_expiry_nodelete(d, e, t, key, expire_ms) ==
    IF expire_ms # <<>>
    THEN IF ~IsInt(expire_ms[1]) \/ ParseInt(expire_ms[1]) <= 0
         THEN Ret(d, e, PyStr("ERROR: Invalid expiration time format."))
         ELSE Ret(d, DictSet(e, key, t + ParseInt(expire_ms[1])), PyStr("OK"))
    ELSE IF key \in DOMAIN e
    THEN Ret(d, DictDel(e, key), PyStr("OK"))
    ELSE Ret(d, e, PyStr("OK"))

\* command_set, lines 51-70; expire_ms is <<>> for None, else <<token>>
set_expiry(d, e, t, key, expire_ms) ==
    IF expire_ms # <<>>
    THEN IF ~IsInt(expire_ms[1])
         THEN LET x == _delete_key_internal(d, e, key)
              IN  Ret(x.data, x.exp, PyStr("ERROR: Invalid expiration time format."))
         ELSE IF ParseInt(expire_ms[1]) <= 0
         THEN LET x == _delete_key_internal(d, e, key)
              IN  Ret(x.data, x.exp, PyStr("ERROR: Invalid expiration time format."))
         ELSE Ret(d, DictSet(e, key, t + ParseInt(expire_ms[1])), PyStr("OK"))
    ELSE IF key \in DOMAIN e
    THEN Ret(d, DictDel(e, key), PyStr("OK"))
    ELSE Ret(d, e, PyStr("OK"))

command_set(d, e, t, key, value, expire_ms) ==
    set_expiry(set_write(d, key, value), e, t, key, expire_ms)

command_get(d, e, t, key) ==
    LET g == _get_value_or_error(d, e, t, key, "str")
    IN  IF g.err # ""
        THEN Ret(g.data, g.exp, PyStr("ERROR: " \o g.err))
        ELSE IF g.val = NoVal
        THEN Ret(g.data, g.exp, PyNone)
        ELSE Ret(g.data, g.exp, PyStr(g.val.s))

RECURSIVE del_count_resident(_, _, _, _, _)
del_count_resident(d, e, t, keys, deleted_count) ==
    IF keys = <<>>
    THEN Ret(d, e, PyInt(deleted_count))
    ELSE LET x == _delete_key_internal(d, e, Head(keys))
         IN  del_count_resident(x.data, x.exp, t, Tail(keys),
                                IF x.deleted THEN deleted_count + 1 ELSE deleted_count)

RECURSIVE del_loop(_, _, _, _, _)
\* command_del, lines 85-91: the loop over the keys not yet visited
del_loop(d, e, t, keys, deleted_count) ==
    IF keys = <<>>
    THEN Ret(d, e, PyInt(deleted_count))
    ELSE LET c == _check_expiry(d, e, t, Head(keys))
             x == _delete_key_internal(c.data, c.exp, Head(keys))
         IN  del_loop(x.data, x.exp, t, Tail(keys),
                      IF x.deleted THEN deleted_count + 1 ELSE deleted_count)

del_count_args(d, e, t, keys) ==
    LET r == del_loop(d, e, t, keys, 0)
    IN  Ret(r.data, r.exp, PyInt(Len(keys)))

command_del(d, e, t, keys) == del_loop(d, e, t, keys, 0)

\* reversed(values)
Reversed(q) == [i \in 1..Len(q) |-> q[Len(q) + 1 - i]]

RECURSIVE appendleft_all(_, _)
\* for value in vs: current_value.appendleft(value)
appendleft_all(q, vs) ==
    IF vs = <<>> THEN q ELSE appendleft_all(<<Head(vs)>> \o q, Tail(vs))

RECURSIVE append_all(_, _)
\* for value in vs: current_value.append(value)
append_all(q, vs) ==
    IF vs = <<>> THEN q ELSE append_all(Append(q, Head(vs)), Tail(vs))

command_lpush(d, e, t, key, values) ==
    IF values = <<>>
    THEN Ret(d, e, PyStr("ERROR: wrong number of arguments for 'lpush' command"))
    ELSE LET c == _check_expiry(d, e, t, key)
             current_value == DictGet(c.data, key)
         IN  IF c.expired
             THEN Ret(DictSet(c.data, key, ListVal(values)), DictDel(c.exp, key),
                      PyInt(Len(values)))
             ELSE IF current_value = NoVal
             THEN Ret(DictSet(c.data, key, ListVal(values)), DictDel(c.exp, key),
                      PyInt(Len(values)))
             ELSE IF current_value.t = "list"
             THEN LET q == appendleft_all(current_value.l, Reversed(values))
                  IN  Ret(DictSet(c.data, key, ListVal(q)), c.exp, PyInt(Len(q)))
             ELSE Ret(c.data, c.exp, PyStr("ERROR: " \o WRONGTYPE))

rpush_keep_expired(d, e, t, key, values) ==
    IF values = <<>>
    THEN Ret(d, e, PyStr("ERROR: wrong number of arguments for 'rpush' command"))
    ELSE LET current_value == DictGet(d, key)
         IN  IF current_value = NoVal
             THEN Ret(DictSet(d, key, ListVal(values)), DictDel(e, key), PyInt(Len(values)))
             ELSE IF current_value.t = "list"
             THEN LET q == append_all(current_value.l, values)
                  IN  Ret(DictSet(d, key, ListVal(q)), e, PyInt(Len(q)))
             ELSE Ret(d, e, PyStr("ERROR: " \o WRONGTYPE))

command_rpush(d, e, t, key, values) ==
    IF values = <<>>
    THEN Ret(d, e, PyStr("ERROR: wrong number of arguments for 'rpush' command"))
    ELSE LET c == _check_expiry(d, e, t, key)
             current_value == DictGet(c.data, key)
         IN  IF c.expired
             THEN Ret(DictSet(c.data, key, ListVal(values)), DictDel(c.exp, key),
                      PyInt(Len(values)))
             ELSE IF current_value = NoVal
             THEN Ret(DictSet(c.data, key, ListVal(values)), DictDel(c.exp, key),
                      PyInt(Len(values)))
             ELSE IF current_value.t = "list"
             THEN LET q == append_all(current_value.l, values)
                  IN  Ret(DictSet(c.data, key, ListVal(q)), c.exp, PyInt(Len(q)))
             ELSE Ret(c.data, c.exp, PyStr("ERROR: " \o WRONGTYPE))

\* Python's q[py_start:py_end]; py_end is <<>> for None, else <<index>>
PySlice(q, py_start, py_end) ==
    LET n == Len(q)
        clamp(i) == IF i < 0 THEN (IF i + n < 0 THEN 0 ELSE i + n)
                    ELSE (IF i > n THEN n ELSE i)
        lo == clamp(py_start)
        hi == IF py_end = <<>> THEN n ELSE clamp(py_end[1])
    IN  IF lo < hi THEN SubSeq(q, lo + 1, hi) ELSE <<>>

command_lrange(d, e, t, key, start_str, stop_str) ==
    IF ~IsInt(start_str) \/ ~IsInt(stop_str)
    THEN Ret(d, e, PyStr("ERROR: value is not an integer or out of range"))
    ELSE LET start == ParseInt(start_str)
             stop0 == ParseInt(stop_str)
             g == _get_value_or_error(d, e, t, key, "list")
             list_len == Len(g.val.l)
             stop == IF stop0 < 0 THEN list_len + stop0 ELSE stop0
             adjusted_stop == stop + 1
             py_end == IF start = 0 /\ stop = -1 THEN <<>> ELSE <<adjusted_stop>>
         IN  IF g.err # ""
             THEN Ret(g.data, g.exp, PyStr("ERROR: " \o g.err))
             ELSE IF g.val = NoVal
             THEN Ret(g.data, g.exp, PyList(<<>>))
             ELSE Ret(g.data, g.exp, PyList(PySlice(g.val.l, start, py_end)))

\* int(x) of a positive number of seconds, given in milliseconds
IntOfSeconds(ms) == ms \div MsPerSec

ttl_missing_persistent(d, e, t, key) == Ret(d, e, PyInt(-1))

ttl_round_up(d, e, t, key) ==
    IF key \notin DOMAIN d
    THEN Ret(d, e, PyInt(-2))
    ELSE LET c == _check_expiry(d, e, t, key)
         IN  IF c.expired
             THEN Ret(c.data, c.exp, PyInt(-2))
             ELSE IF key \in DOMAIN c.exp
             THEN IF c.exp[key] - t > 0
                  THEN Ret(c.data, c.exp, PyInt(IntOfSeconds(c.exp[key] - t) + 1))
                  ELSE Ret(c.data, c.exp, PyInt(-2))
             ELSE Ret(c.data, c.exp, PyInt(-1))

command_ttl(d, e, t, key) ==
    IF key \notin DOMAIN d
    THEN Ret(d, e, PyInt(-2))
    ELSE LET c == _check_expiry(d, e, t, key)
         IN  IF c.expired
             THEN Ret(c.data, c.exp, PyInt(-2))
             ELSE IF key \in DOMAIN c.exp
             THEN LET remaining_time == c.exp[key] - t
                  IN  IF remaining_time > 0
                      THEN Ret(c.data, c.exp, PyInt(IntOfSeconds(remaining_time)))
                      ELSE Ret(c.data, c.exp, PyInt(-2))
             ELSE Ret(c.data, c.exp, PyInt(-1))

expire_keep_deadline(d, e, t, key, seconds) ==
    IF key \notin DOMAIN d
    THEN Ret(d, e, PyInt(0))
    ELSE LET c == _check_expiry(d, e, t, key)
         IN  IF c.expired
             THEN Ret(c.data, c.exp, PyInt(0))
             ELSE IF ~IsInt(seconds)
             THEN Ret(c.data, c.exp, PyInt(0))
             ELSE IF ParseInt(seconds) <= 0
             THEN Ret(c.data, c.exp, PyInt(IF key \in DOMAIN c.exp THEN 1 ELSE 0))
             ELSE Ret(c.data, DictSet(c.exp, key, t + ParseInt(seconds) * MsPerSec),
                      PyInt(1))

expire_parse_error(d, e, t, key, seconds) ==
    IF key \notin DOMAIN d
    THEN Ret(d, e, PyInt(0))
    ELSE LET c == _check_expiry(d, e, t, key)
         IN  IF c.expired
             THEN Ret(c.data, c.exp, PyInt(0))
             ELSE IF ~IsInt(seconds)
             THEN Ret(c.data, c.exp, PyStr("ERROR: value is not an integer or out of range"))
             ELSE IF ParseInt(seconds) <= 0
             THEN IF key \in DOMAIN c.exp
                  THEN Ret(c.data, DictDel(c.exp, key), PyInt(1))
                  ELSE Ret(c.data, c.exp, PyInt(0))
             ELSE Ret(c.data, DictSet(c.exp, key, t + ParseInt(seconds) * MsPerSec),
                      PyInt(1))

expire_no_lazy(d, e, t, key, seconds) ==
    IF key \notin DOMAIN d
    THEN Ret(d, e, PyInt(0))
    ELSE IF ~IsInt(seconds)
    THEN Ret(d, e, PyInt(0))
    ELSE IF ParseInt(seconds) <= 0
    THEN IF key \in DOMAIN e
         THEN Ret(d, DictDel(e, key), PyInt(1))
         ELSE Ret(d, e, PyInt(0))
    ELSE Ret(d, DictSet(e, key, t + ParseInt(seconds) * MsPerSec), PyInt(1))

command_expire(d, e, t, key, seconds) ==
    IF key \notin DOMAIN d
    THEN Ret(d, e, PyInt(0))
    ELSE LET c == _check_expiry(d, e, t, key)
         IN  IF c.expired
             THEN Ret(c.data, c.exp, PyInt(0))
             ELSE IF ~IsInt(seconds)
             THEN Ret(c.data, c.exp, PyInt(0))
             ELSE LET expire_seconds == ParseInt(seconds)
                  IN  IF expire_seconds <= 0
                      THEN IF key \in DOMAIN c.exp
                           THEN Ret(c.data, DictDel(c.exp, key), PyInt(1))
                           ELSE Ret(c.data, c.exp, PyInt(0))
                      ELSE Ret(c.data,
                               DictSet(c.exp, key, t + expire_seconds * MsPerSec),
                               PyInt(1))

hset_overwrites(d, e, t, key, field, value) ==
    LET c == _check_expiry(d, e, t, key)
        current_value == DictGet(c.data, key)
    IN  IF c.expired \/ current_value = NoVal
        THEN Ret(DictSet(c.data, key, HashVal(DictSet(EmptyHash, field, value))),
                 DictDel(c.exp, key), PyInt(1))
        ELSE LET is_new_field == field \notin DOMAIN current_value.h
             IN  Ret(DictSet(c.data, key, HashVal(DictSet(current_value.h, field, value))),
                     c.exp, PyInt(IF is_new_field THEN 1 ELSE 0))

hset_always_new(d, e, t, key, field, value) ==
    LET c == _check_expiry(d, e, t, key)
        current_value == DictGet(c.data, key)
    IN  IF c.expired \/ current_value = NoVal
        THEN Ret(DictSet(c.data, key, HashVal(DictSet(EmptyHash, field, value))),
                 DictDel(c.exp, key), PyInt(1))
        ELSE IF current_value.t = "hash"
        THEN Ret(DictSet(c.data, key, HashVal(DictSet(current_value.h, field, value))),
                 c.exp, PyInt(1))
        ELSE Ret(c.data, c.exp, PyStr("ERROR: " \o WRONGTYPE))

command_hset(d, e, t, key, field, value) ==
    LET c == _check_expiry(d, e, t, key)
        current_value == DictGet(c.data, key)
    IN  IF c.expired
        THEN Ret(DictSet(c.data, key, HashVal(DictSet(EmptyHash, field, value))),
                 DictDel(c.exp, key), PyInt(1))
        ELSE IF current_value = NoVal
        THEN Ret(DictSet(c.data, key, HashVal(DictSet(EmptyHash, field, value))),
                 DictDel(c.exp, key), PyInt(1))
        ELSE IF current_value.t = "hash"
        THEN LET is_new_field == field \notin DOMAIN current_value.h
             IN  Ret(DictSet(c.data, key, HashVal(DictSet(current_value.h, field, value))),
                     c.exp, PyInt(IF is_new_field THEN 1 ELSE 0))
        ELSE Ret(c.data, c.exp, PyStr("ERROR: " \o WRONGTYPE))

command_hget(d, e, t, key, field) ==
    LET g == _get_value_or_error(d, e, t, key, "hash")
    IN  IF g.err # ""
        THEN Ret(g.data, g.exp, PyStr("ERROR: " \o g.err))
        ELSE IF g.val = NoVal
        THEN Ret(g.data, g.exp, PyNone)
        ELSE IF field \in DOMAIN g.val.h
        THEN Ret(g.data, g.exp, PyStr(g.val.h[field]))
        ELSE Ret(g.data, g.exp, PyNone)

RECURSIVE hdel_loop(_, _, _)
\* command_hdel, lines 310-316: [the dict afterwards, deleted_count]
hdel_loop(h, fields, deleted_count) ==
    IF fields = <<>>
    THEN [h |-> h, n |-> deleted_count]
    ELSE IF Head(fields) \in DOMAIN h
    THEN hdel_loop(DictDel(h, Head(fields)), Tail(fields), deleted_count + 1)
    ELSE hdel_loop(h, Tail(fields), deleted_count)

hdel_keep_deadline(d, e, t, key, fields) ==
    IF fields = <<>>
    THEN Ret(d, e, PyStr("ERROR: wrong number of arguments for 'hdel' command"))
    ELSE LET g == _get_value_or_error(d, e, t, key, "hash")
         IN  IF g.err # ""
             THEN Ret(g.data, g.exp, PyStr("ERROR: " \o g.err))
             ELSE IF g.val = NoVal
             THEN Ret(g.data, g.exp, PyInt(0))
             ELSE LET r == hdel_loop(g.val.h, fields, 0)
                  IN  IF DOMAIN r.h = {}
                      THEN Ret(DictDel(g.data, key), g.exp, PyInt(r.n))
                      ELSE Ret(DictSet(g.data, key, HashVal(r.h)), g.exp, PyInt(r.n))

command_hdel(d, e, t, key, fields) ==
    IF fields = <<>>
    THEN Ret(d, e, PyStr("ERROR: wrong number of arguments for 'hdel' command"))
    ELSE LET g == _get_value_or_error(d, e, t, key, "hash")
         IN  IF g.err # ""
             THEN Ret(g.data, g.exp, PyStr("ERROR: " \o g.err))
             ELSE IF g.val = NoVal
             THEN Ret(g.data, g.exp, PyInt(0))
             ELSE LET r == hdel_loop(g.val.h, fields, 0)
                  IN  IF DOMAIN r.h = {}
                      THEN LET x == _delete_key_internal(g.data, g.exp, key)
                           IN  Ret(x.data, x.exp, PyInt(r.n))
                      ELSE Ret(DictSet(g.data, key, HashVal(r.h)), g.exp, PyInt(r.n))

----------------------------------------------------------------------------
(* The store called directly: one action per command method, one per tick *)

NoLast == [cmd |-> "", key |-> "", args |-> <<>>, res |-> PyNone,
           preT |-> "none", preD |-> "none", preLive |-> {}]

\* what key holds, and how its deadline stands against the clock
ShapeOf(d, key) == DictGet(d, key).t
DeadlineOf(e, t, key) ==
    IF key \notin DOMAIN e THEN "none"
    ELSE IF e[key] < t THEN "past"
    ELSE IF e[key] = t THEN "due"
    ELSE "ahead"

\* the arguments explored
SeqsUpTo(S, n) == UNION {[1..i -> S] : i \in 0..n}
ExTokens == {"100", "1500", "0", "-1", "abc"}
SecondsTokens == {"1", "0", "-1", "abc"}
IndexTokens == {"0", "1", "-1", "-2", "-3", "2", "x"}
DelArgs(K) == SeqsUpTo(K, 2) \ {<<>>}
PushArgs == SeqsUpTo(Values, 2)
FieldArgs == SeqsUpTo(Fields, 2)

\* the list key holds grows by n elements and stays within the bound
PushFits(key, n) ==
    (IF ShapeOf(data, key) = "list" THEN Len(data[key].l) ELSE 0) + n <= MaxLen

\* the keys among ks that hold a value whose deadline, if any, has not passed
LiveKeys(d, e, t, ks) ==
    {k \in ks : k \in DOMAIN d /\ DeadlineOf(e, t, k) # "past"}

\* the keys a direct call names
KeysNamed(cmd, key, args) ==
    IF cmd = "DEL" THEN {args[i] : i \in 1..Len(args)} ELSE {key}

Call(cmd, key, args, r) ==
    /\ data' = r.data
    /\ expirations' = r.exp
    /\ last' = [cmd |-> cmd, key |-> key, args |-> args, res |-> r.res,
                preT |-> ShapeOf(data, key),
                preD |-> DeadlineOf(expirations, now, key),
                preLive |-> LiveKeys(data, expirations, now, KeysNamed(cmd, key, args))]
    /\ UNCHANGED <<now, connVars>>

Set(K) ==
    \E key \in K, value \in Values :
        /\ Call("SET", key, <<value>>, command_set(data, expirations, now, key, value, <<>>))
        /\ UNCHANGED touched

SetEx(K) ==
    \E key \in K, value \in Values, ms \in ExTokens :
        /\ Call("SETEX", key, <<value, ms>>,
                command_set(data, expirations, now, key, value, <<ms>>))
        /\ touched' = touched \cup {key}

Get(K) ==
    \E key \in K :
        /\ Call("GET", key, <<>>, command_get(data, expirations, now, key))
        /\ UNCHANGED touched

Del(K) ==
    \E keys \in DelArgs(K) :
        /\ Call("DEL", keys[1], keys, command_del(data, expirations, now, keys))
        /\ UNCHANGED touched

Lpush(K) ==
    \E key \in K, values \in PushArgs :
        /\ PushFits(key, Len(values))
        /\ Call("LPUSH", key, values, command_lpush(data, expirations, now, key, values))
        /\ UNCHANGED touched

Rpush(K) ==
    \E key \in K, values \in PushArgs :
        /\ PushFits(key, Len(values))
        /\ Call("RPUSH", key, values, command_rpush(data, expirations, now, key, values))
        /\ UNCHANGED touched

Lrange(K) ==
    \E key \in K, start_str \in IndexTokens, stop_str \in IndexTokens :
        /\ Call("LRANGE", key, <<start_str, stop_str>>,
                command_lrange(data, expirations, now, key, start_str, stop_str))
        /\ UNCHANGED touched

Ttl(K) ==
    \E key \in K :
        /\ Call("TTL", key, <<>>, command_ttl(data, expirations, now, key))
        /\ UNCHANGED touched

Expire(K) ==
    \E key \in K, seconds \in SecondsTokens :
        /\ Call("EXPIRE", key, <<seconds>>,
                command_expire(data, expirations, now, key, seconds))
        /\ touched' = touched \cup {key}

Hset(K) ==
    \E key \in K, field \in Fields, value \in Values :
        /\ Call("HSET", key, <<field, value>>,
                command_hset(data, expirations, now, key, field, value))
        /\ UNCHANGED touched

Hget(K) ==
    \E key \in K, field \in Fields :
        /\ Call("HGET", key, <<field>>, command_hget(data, expirations, now, key, field))
        /\ UNCHANGED touched

Hdel(K) ==
    \E key \in K, fields \in FieldArgs :
        /\ Call("HDEL", key, fields, command_hdel(data, expirations, now, key, fields))
        /\ UNCHANGED touched

\* time passes between two commands
Advance ==
    /\ now + Tick <= MaxTicks * Tick
    /\ now' = now + Tick
    /\ last' = NoLast
    /\ UNCHANGED <<data, expirations, touched, connVars>>

InitStore ==
    /\ data = [k \in {} |-> NoVal]
    /\ expirations = [k \in {} |-> 0]
    /\ now = 0
    /\ last = NoLast
    /\ touched = {}

InitConns ==
    /\ sock = [c \in Conns |-> <<>>]
    /\ sent = [c \in Conns |-> <<>>]
    /\ buffer = [c \in Conns |-> <<>>]
    /\ pc = [c \in Conns |-> "recv"]
    /\ cur = [c \in Conns |-> <<>>]
    /\ response = [c \in Conns |-> PyNone]
    /\ seen = [c \in Conns |-> [data |-> [k \in {} |-> NoVal], exp |-> [k \in {} |-> 0]]]
    /\ out = [c \in Conns |-> <<>>]
    /\ store_lock = NoConn
    /\ disk = <<>>

Init == InitStore /\ InitConns

Next ==
    \/ Set(TimedKeys)
    \/ SetEx(TimedKeys)
    \/ Get(TimedKeys)
    \/ Del(TimedKeys)
    \/ Lpush(TimedKeys)
    \/ Rpush(TimedKeys)
    \/ Lrange(TimedKeys)
    \/ Ttl(TimedKeys)
    \/ Expire(TimedKeys)
    \/ Hset(TimedKeys)
    \/ Hget(TimedKeys)
    \/ Hdel(TimedKeys)
    \/ Advance

Spec == Init /\ [][Next]_vars

\* the store called directly on two keys: the commands that create, time and
\* delete keys
NextKeys ==
    \/ Set(Keys)
    \/ SetEx(Keys)
    \/ Del(Keys)
    \/ Advance

SpecKeys == Init /\ [][NextKeys]_vars

----------------------------------------------------------------------------
(* handle_connection: one thread per connection, all sharing store and       *)
(* store_lock.  A line is the sequence of tokens command_line.split() gives; *)
(* the blank line is <<>>.                                                   *)

EOF == <<"<eof>">>       \* the peer has closed: recv returns b''

\* str.upper() on the tokens explored
Upper(s) ==
    CASE s = "set" -> "SET"
      [] s = "get" -> "GET"
      [] s = "ex" -> "EX"
      [] s = "foo" -> "FOO"
      [] OTHER -> s

Snapshot == [data |-> data, exp |-> expirations]

\* lines 102-142: the if/elif chain run under store_lock; response stays None
\* when no branch assigns it
Dispatch(command, args, d, e, t) ==
    IF command = "SET"
    THEN IF Len(args) = 2
         THEN command_set(d, e, t, args[1], args[2], <<>>)
         ELSE IF Len(args) = 4 /\ Upper(args[3]) = "EX"
         THEN command_set(d, e, t, args[1], args[2], <<args[4]>>)
         ELSE Ret(d, e, PyStr("ERROR: wrong number of arguments for 'set' command"))
    ELSE IF command = "GET"
    THEN IF Len(args) = 1
         THEN command_get(d, e, t, args[1])
         ELSE IF command = "DEL"
         THEN IF Len(args) >= 1
              THEN command_del(d, e, t, args)
              ELSE Ret(d, e, PyStr("ERROR: wrong number of arguments for 'del' command"))
         ELSE IF command = "LPUSH"
         THEN IF Len(args) >= 2
              THEN command_lpush(d, e, t, args[1], Tail(args))
              ELSE Ret(d, e, PyStr("ERROR: wrong number of arguments for 'lpush' command"))
         ELSE IF command = "RPUSH"
         THEN IF Len(args) >= 2
              THEN command_rpush(d, e, t, args[1], Tail(args))
              ELSE Ret(d, e, PyStr("ERROR: wrong number of arguments for 'rpush' command"))
         ELSE IF command = "LRANGE"
         THEN IF Len(args) = 3
              THEN command_lrange(d, e, t, args[1], args[2], args[3])
              ELSE Ret(d, e, PyStr("ERROR: wrong number of arguments for 'lrange' command"))
         ELSE IF command = "HSET"
         THEN IF Len(args) = 3
              THEN command_hset(d, e, t, args[1], args[2], args[3])
              ELSE Ret(d, e, PyStr("ERROR: wrong number of arguments for 'hset' command"))
         ELSE IF command = "HGET"
         THEN IF Len(args) = 2
              THEN command_hget(d, e, t, args[1], args[2])
              ELSE Ret(d, e, PyStr("ERROR: wrong number of arguments for 'hget' command"))
         ELSE IF command = "HDEL"
         THEN IF Len(args) >= 2
              THEN command_hdel(d, e, t, args[1], Tail(args))
              ELSE Ret(d, e, PyStr("ERROR: wrong number of arguments for 'hdel' command"))
         ELSE IF command = "TTL"
         THEN IF Len(args) = 1
              THEN command_ttl(d, e, t, args[1])
              ELSE Ret(d, e, PyStr("ERROR: wrong number of arguments for 'ttl' command"))
         ELSE IF command = "EXPIRE"
         THEN IF Len(args) = 2
              THEN command_expire(d, e, t, args[1], args[2])
              ELSE Ret(d, e, PyStr("ERROR: wrong number of arguments for 'expire' command"))
         ELSE IF command = "PING" THEN Ret(d, e, PyStr("PONG"))
         ELSE IF command = "COMMAND" THEN Ret(d, e, PyStr("Commands: ..."))
         ELSE IF command = "QUIT" THEN Ret(d, e, PyStr("OK"))
         ELSE Ret(d, e, PyStr("ERROR: Unknown command '" \o command \o "'"))
    ELSE Ret(d, e, PyNone)

RECURSIVE JoinLines(_)
\* "\n".join(map(str, response))
JoinLines(q) ==
    IF q = <<>> THEN ""
    ELSE IF Len(q) = 1 THEN q[1]
    ELSE q[1] \o "\n" \o JoinLines(Tail(q))

render_bare_int(r) ==
    (IF r.kind = "none" THEN "Nil"
     ELSE IF r.kind = "list" THEN JoinLines(r.l)
     ELSE IF r.kind = "int" THEN ToString(r.n)
     ELSE r.s) \o "\n"

\* lines 156-162: response_str, then the bytes sent
Render(r) ==
    (IF r.kind = "none" THEN "Nil"
     ELSE IF r.kind = "list" THEN JoinLines(r.l)
     ELSE IF r.kind = "int" THEN ":" \o ToString(r.n)
     ELSE r.s) \o "\n"

\* the line being served: command = parts[0].upper(), args = parts[1:]
CommandOf(line) == Upper(line[1])
ArgsOf(line) == Tail(line)

\* the SET lines that reach command_set (lines 103-106), and its expire_ms
CallsSet(line) ==
    /\ CommandOf(line) = "SET"
    /\ \/ Len(ArgsOf(line)) = 2
       \/ Len(ArgsOf(line)) = 4 /\ Upper(ArgsOf(line)[3]) = "EX"
ExpireMsOf(line) == IF Len(ArgsOf(line)) = 2 THEN <<>> ELSE <<ArgsOf(line)[4]>>

LockAlwaysFree == TRUE

\* store_lock.acquire() succeeds
LockFree == store_lock = NoConn

\* client: sendall(line + "\n")
ClientSend(c, L, n) ==
    /\ Len(sent[c]) < n
    /\ \A i \in 1..Len(sent[c]) : sent[c][i] # EOF
    /\ \E line \in L :
         /\ sock' = [sock EXCEPT ![c] = Append(@, line)]
         /\ sent' = [sent EXCEPT ![c] = Append(@, line)]
    /\ UNCHANGED <<storeVars, histVars, buffer, pc, cur, response, seen, out,
                   store_lock, disk>>

\* client: close()
ClientClose(c) ==
    /\ \A i \in 1..Len(sent[c]) : sent[c][i] # EOF
    /\ sock' = [sock EXCEPT ![c] = Append(@, EOF)]
    /\ sent' = [sent EXCEPT ![c] = Append(@, EOF)]
    /\ UNCHANGED <<storeVars, histVars, buffer, pc, cur, response, seen, out,
                   store_lock, disk>>

\* lines 74-79: recv returns some of the pending lines
Recv(c) ==
    /\ pc[c] = "recv"
    /\ sock[c] # <<>>
    /\ Head(sock[c]) # EOF
    /\ \E n \in 1..Len(sock[c]) :
         /\ \A i \in 1..n : sock[c][i] # EOF
         /\ buffer' = [buffer EXCEPT ![c] = @ \o SubSeq(sock[c], 1, n)]
         /\ sock' = [sock EXCEPT ![c] = SubSeq(@, n + 1, Len(@))]
    /\ pc' = [pc EXCEPT ![c] = "split"]
    /\ UNCHANGED <<storeVars, histVars, sent, cur, response, seen, out, store_lock, disk>>

\* lines 75-77, 168-170: recv returns b'', the loop breaks, the socket is closed
RecvEof(c) ==
    /\ pc[c] = "recv"
    /\ sock[c] # <<>>
    /\ Head(sock[c]) = EOF
    /\ pc' = [pc EXCEPT ![c] = "closed"]
    /\ UNCHANGED <<storeVars, histVars, sock, sent, buffer, cur, response, seen, out,
                   store_lock, disk>>

\* line 81: no newline left in the buffer
SplitNone(c) ==
    /\ pc[c] = "split"
    /\ buffer[c] = <<>>
    /\ pc' = [pc EXCEPT ![c] = "recv"]
    /\ UNCHANGED <<storeVars, histVars, sock, sent, buffer, cur, response, seen, out,
                   store_lock, disk>>

\* lines 82-88: a blank line is skipped
SplitBlank(c) ==
    /\ pc[c] = "split"
    /\ buffer[c] # <<>>
    /\ Head(buffer[c]) = <<>>
    /\ buffer' = [buffer EXCEPT ![c] = Tail(@)]
    /\ UNCHANGED <<storeVars, histVars, sock, sent, pc, cur, response, seen, out,
                   store_lock, disk>>

\* lines 82-92, 99: a command other than SAVE goes for the lock
SplitCommand(c) ==
    /\ pc[c] = "split"
    /\ buffer[c] # <<>>
    /\ Head(buffer[c]) # <<>>
    /\ CommandOf(Head(buffer[c])) # "SAVE"
    /\ buffer' = [buffer EXCEPT ![c] = Tail(@)]
    /\ cur' = [cur EXCEPT ![c] = Head(buffer[c])]
    /\ response' = [response EXCEPT ![c] = PyNone]
    /\ pc' = [pc EXCEPT ![c] = "lock"]
    /\ UNCHANGED <<storeVars, histVars, sock, sent, seen, out, store_lock, disk>>

\* lines 94-96: SAVE without arguments calls save_data_to_disk
SplitSave(c) ==
    /\ pc[c] = "split"
    /\ buffer[c] # <<>>
    /\ Head(buffer[c]) # <<>>
    /\ CommandOf(Head(buffer[c])) = "SAVE"
    /\ ArgsOf(Head(buffer[c])) = <<>>
    /\ buffer' = [buffer EXCEPT ![c] = Tail(@)]
    /\ cur' = [cur EXCEPT ![c] = Head(buffer[c])]
    /\ response' = [response EXCEPT ![c] = PyNone]
    /\ pc' = [pc EXCEPT ![c] = "save"]
    /\ UNCHANGED <<storeVars, histVars, sock, sent, seen, out, store_lock, disk>>

\* lines 97-98: SAVE with arguments
SplitSaveArgs(c) ==
    /\ pc[c] = "split"
    /\ buffer[c] # <<>>
    /\ Head(buffer[c]) # <<>>
    /\ CommandOf(Head(buffer[c])) = "SAVE"
    /\ ArgsOf(Head(buffer[c])) # <<>>
    /\ buffer' = [buffer EXCEPT ![c] = Tail(@)]
    /\ cur' = [cur EXCEPT ![c] = Head(buffer[c])]
    /\ response' = [response EXCEPT ![c] = PyStr("ERROR: 'save' command takes no arguments")]
    /\ pc' = [pc EXCEPT ![c] = "reply"]
    /\ UNCHANGED <<storeVars, histVars, sock, sent, seen, out, store_lock, disk>>

\* line 100: with store_lock
Acquire(c) ==
    /\ pc[c] = "lock"
    /\ LockFree
    /\ store_lock' = c
    /\ seen' = [seen EXCEPT ![c] = Snapshot]
    /\ pc' = [pc EXCEPT ![c] = "exec"]
    /\ UNCHANGED <<storeVars, histVars, sock, sent, buffer, cur, response, out, disk>>

\* lines 102-106 into command_set, line 50
ExecSetWrite(c) ==
    /\ pc[c] = "exec"
    /\ CallsSet(cur[c])
    /\ data' = set_write(data, ArgsOf(cur[c])[1], ArgsOf(cur[c])[2])
    /\ pc' = [pc EXCEPT ![c] = "set2"]
    /\ UNCHANGED <<expirations, now, histVars, sock, sent, buffer, cur, response, seen,
                   out, store_lock, disk>>

\* command_set, lines 51-70, and the assignment to response
ExecSetExpiry(c) ==
    /\ pc[c] = "set2"
    /\ LET r == set_expiry(data, expirations, now, ArgsOf(cur[c])[1], ExpireMsOf(cur[c]))
       IN  /\ data' = r.data
           /\ expirations' = r.exp
           /\ response' = [response EXCEPT ![c] = r.res]
    /\ pc' = [pc EXCEPT ![c] = "unlock"]
    /\ UNCHANGED <<now, histVars, sock, sent, buffer, cur, seen, out, store_lock, disk>>

\* lines 102-142 for every other line
ExecOther(c) ==
    /\ pc[c] = "exec"
    /\ ~CallsSet(cur[c])
    /\ LET r == Dispatch(CommandOf(cur[c]), ArgsOf(cur[c]), data, expirations, now)
       IN  /\ data' = r.data
           /\ expirations' = r.exp
           /\ response' = [response EXCEPT ![c] = r.res]
    /\ pc' = [pc EXCEPT ![c] = "unlock"]
    /\ UNCHANGED <<now, histVars, sock, sent, buffer, cur, seen, out, store_lock, disk>>

\* the end of the with block: store_lock.release()
Release(c) ==
    /\ pc[c] = "unlock"
    /\ store_lock' = NoConn
    /\ pc' = [pc EXCEPT ![c] = "reply"]
    /\ UNCHANGED <<storeVars, histVars, sock, sent, buffer, cur, response, seen, out, disk>>

\* save_data_to_disk, line 57: with store_lock
SaveAcquire(c) ==
    /\ pc[c] = "save"
    /\ LockFree
    /\ store_lock' = c
    /\ seen' = [seen EXCEPT ![c] = Snapshot]
    /\ pc' = [pc EXCEPT ![c] = "saving"]
    /\ UNCHANGED <<storeVars, histVars, sock, sent, buffer, cur, response, out, disk>>

\* save_data_to_disk, lines 58-63: the dump is written and the lock released
SaveDump(c) ==
    /\ pc[c] = "saving"
    /\ disk' = <<Snapshot>>
    /\ response' = [response EXCEPT ![c] = PyStr("OK")]
    /\ store_lock' = NoConn
    /\ pc' = [pc EXCEPT ![c] = "reply"]
    /\ UNCHANGED <<storeVars, histVars, sock, sent, buffer, cur, seen, out>>

\* save_data_to_disk, lines 64-66: the dump fails and the lock is released
SaveFail(c) ==
    /\ pc[c] = "saving"
    /\ response' = [response EXCEPT ![c] = PyStr("ERROR: Could not save data: e")]
    /\ store_lock' = NoConn
    /\ pc' = [pc EXCEPT ![c] = "reply"]
    /\ UNCHANGED <<storeVars, histVars, sock, sent, buffer, cur, seen, out, disk>>

ReplyQuitAndServe(c) ==
    /\ pc[c] = "reply"
    /\ CommandOf(cur[c]) = "QUIT"
    /\ out' = [out EXCEPT ![c] = Append(@, "OK" \o "\n")]
    /\ pc' = [pc EXCEPT ![c] = "split"]
    /\ UNCHANGED <<storeVars, histVars, sock, sent, buffer, cur, response, seen,
                   store_lock, disk>>

\* lines 148-154: QUIT is answered "OK" and the connection closed
ReplyQuit(c) ==
    /\ pc[c] = "reply"
    /\ CommandOf(cur[c]) = "QUIT"
    /\ out' = [out EXCEPT ![c] = Append(@, "OK" \o "\n")]
    /\ pc' = [pc EXCEPT ![c] = "closed"]
    /\ UNCHANGED <<storeVars, histVars, sock, sent, buffer, cur, response, seen,
                   store_lock, disk>>

\* lines 156-162: the response is rendered and sent
Reply(c) ==
    /\ pc[c] = "reply"
    /\ CommandOf(cur[c]) # "QUIT"
    /\ out' = [out EXCEPT ![c] = Append(@, Render(response[c]))]
    /\ pc' = [pc EXCEPT ![c] = "split"]
    /\ UNCHANGED <<storeVars, histVars, sock, sent, buffer, cur, response, seen,
                   store_lock, disk>>

\* the steps of handle_connection every exploration takes
Serve(c) ==
    \/ Recv(c)
    \/ SplitNone(c)
    \/ SplitCommand(c)
    \/ Acquire(c)
    \/ ExecSetWrite(c)
    \/ ExecSetExpiry(c)
    \/ ExecOther(c)
    \/ Release(c)
    \/ Reply(c)

\* the lines explored at the dispatcher
DispatchLines ==
    { <<>>,
      <<"SET", "k1", "a">>, <<"set", "k1", "b", "ex", "100">>, <<"SET", "k1">>,
      <<"GET", "k1">>, <<"GET">>,
      <<"DEL", "k1">>, <<"DEL">>,
      <<"LPUSH", "k1", "a">>, <<"LPUSH", "k1">>,
      <<"RPUSH", "k1", "a">>, <<"RPUSH", "k1">>,
      <<"LRANGE", "k1", "0", "-1">>, <<"LRANGE", "k1">>,
      <<"HSET", "k1", "f", "a">>, <<"HSET", "k1">>,
      <<"HGET", "k1", "f">>, <<"HGET", "k1">>,
      <<"HDEL", "k1", "f">>, <<"HDEL", "k1">>,
      <<"TTL", "k1">>, <<"TTL">>,
      <<"EXPIRE", "k1", "1">>, <<"EXPIRE", "k1">>,
      <<"PING">>, <<"COMMAND">>, <<"QUIT">>, <<"foo">>, <<"BAR", "k1">>,
      <<"SAVE">>, <<"SAVE", "now">> }

NextServer ==
    \E c \in Conns :
        \/ ClientSend(c, DispatchLines, MaxSend)
        \/ ClientClose(c)
        \/ RecvEof(c)
        \/ SplitBlank(c)
        \/ SplitSave(c)
        \/ SplitSaveArgs(c)
        \/ SaveAcquire(c)
        \/ SaveDump(c)
        \/ SaveFail(c)
        \/ ReplyQuit(c)
        \/ Serve(c)

SpecServer == Init /\ [][NextServer]_vars

\* the lines each client writes in the concurrency exploration
ConcLines(c) ==
    IF c = "c1"
    THEN { <<"DEL", "k1">>, <<"SET", "k1", "a">>, <<"GET", "k1">> }
    ELSE { <<"DEL", "k1">>, <<"SET", "k1", "b", "EX", "100">>, <<"SET", "k2", "a">> }

NextConc ==
    \E c \in Conns :
        \/ ClientSend(c, ConcLines(c), MaxPairs)
        \/ Serve(c)

SpecConc == Init /\ [][NextConc]_vars

----------------------------------------------------------------------------
(* handle_connection on lines that end the connection, fail or do not       *)
(* decode                                                                    *)

\* tokens holding a character that UTF-8 encodes in more than one byte;
\* "<c3a9>" stands for the two bytes C3 A9
MultiByteTokens == {"<c3a9>"}
MultiByte(line) == \E i \in 1..Len(line) : line[i] \in MultiByteTokens

\* lines 74-79, 166-170: the chunk recv returns ends inside a multi-byte
\* character of line n, data.decode('utf-8') raises UnicodeDecodeError before
\* the chunk reaches the buffer, the handler leaves the loop and closes
RecvDecodeError(c) ==
    /\ pc[c] = "recv"
    /\ \E n \in 1..Len(sock[c]) :
         /\ \A i \in 1..n : sock[c][i] # EOF
         /\ MultiByte(sock[c][n])
         /\ sock' = [sock EXCEPT ![c] = SubSeq(@, n, Len(@))]
    /\ pc' = [pc EXCEPT ![c] = "closed"]
    /\ UNCHANGED <<storeVars, histVars, sent, buffer, cur, response, seen, out,
                   store_lock, disk>>

InternalError == PyStr("ERROR: Internal server error: e")

ExecFailEscapes(c) ==
    /\ pc[c] \in {"exec", "set2"}
    /\ store_lock' = NoConn
    /\ pc' = [pc EXCEPT ![c] = "closed"]
    /\ UNCHANGED <<storeVars, histVars, sock, sent, buffer, cur, response, seen, out, disk>>

\* lines 144-146: the command raises, before or after its first write, and
\* the exception is caught inside the with block
ExecFail(c) ==
    /\ pc[c] \in {"exec", "set2"}
    /\ response' = [response EXCEPT ![c] = InternalError]
    /\ pc' = [pc EXCEPT ![c] = "unlock"]
    /\ UNCHANGED <<storeVars, histVars, sock, sent, buffer, cur, seen, out,
                   store_lock, disk>>

\* the lines each client writes in the connection exploration
WireLines(c) ==
    IF c = "c1"
    THEN { <<>>, <<"QUIT">>, <<"SET", "k1", "<c3a9>">> }
    ELSE { <<"SAVE">>, <<"GET", "k1">> }

NextWire ==
    \E c \in Conns :
        \/ ClientSend(c, WireLines(c), MaxPairs)
        \/ ClientClose(c)
        \/ RecvEof(c)
        \/ RecvDecodeError(c)
        \/ SplitBlank(c)
        \/ SplitSave(c)
        \/ SaveAcquire(c)
        \/ SaveDump(c)
        \/ ReplyQuit(c)
        \/ Serve(c)

SpecWire == Init /\ [][NextWire]_vars

\* the lines each client writes in the failure exploration
FailLines(c) == IF c = "c1" THEN { <<"SET", "k1", "a">> } ELSE { <<"GET", "k1">> }

\* one thread per connection: every step it can take
Thread(c) == Serve(c) \/ ExecFail(c)

NextFail ==
    \E c \in Conns :
        \/ ClientSend(c, FailLines(c), MaxPairs)
        \/ ExecFail(c)
        \/ Serve(c)

\* a thread that can take a step takes one
SpecFail == Init /\ [][NextFail]_vars /\ \A c \in Conns : WF_vars(Thread(c))

----------------------------------------------------------------------------
(* The rendering of results, lines 156-162, applied to the results the       *)
(* commands return                                                           *)

MaxReplies == 1    \* replies a connection writes in the rendering exploration

\* strings a client can store with SET and read back with GET
StoredStrings == {"a", "Nil", ":1", "OK"}

\* a served line and a value its command returns: nil, a stored string, an
\* error, a status, an integer, a sequence
RenderCases ==
    {[line |-> <<"GET", "k1">>, res |-> PyNone]}
    \cup {[line |-> <<"GET", "k1">>, res |-> PyStr(s)] : s \in StoredStrings}
    \cup {[line |-> <<"GET", "k1">>, res |-> PyStr("ERROR: " \o WRONGTYPE)]}
    \cup {[line |-> <<"SET", "k1", "a">>, res |-> PyStr("OK")]}
    \cup {[line |-> <<"EXPIRE", "k1">>,
           res |-> PyStr("ERROR: wrong number of arguments for 'expire' command")]}
    \cup {[line |-> <<"TTL", "k1">>, res |-> PyInt(n)] : n \in -2..1}
    \cup {[line |-> <<"LRANGE", "k1", "0", "-1">>, res |-> PyList(q)] :
              q \in SeqsUpTo(Values, 2)}

\* lines 82-146: a line is taken and its command leaves its result in response
Respond(c) ==
    /\ pc[c] \in {"recv", "split"}
    /\ Len(out[c]) < MaxReplies
    /\ \E x \in RenderCases :
         /\ cur' = [cur EXCEPT ![c] = x.line]
         /\ response' = [response EXCEPT ![c] = x.res]
    /\ pc' = [pc EXCEPT ![c] = "reply"]
    /\ UNCHANGED <<storeVars, histVars, sock, sent, buffer, seen, out, store_lock, disk>>

NextRender ==
    \E c \in Conns :
        \/ Respond(c)
        \/ Reply(c)

SpecRender == Init /\ [][NextRender]_vars

----------------------------------------------------------------------------
(* Claims about the store *)

OK == PyStr("OK")
LiveBefore == last.preT # "none" /\ last.preD # "past"

\* C5: after SET k v without EX returns "OK", whatever k held before, k holds
\* exactly Str v with no deadline: an immediate GET k returns v, TTL k returns
\* -1, and a second SET k v2 makes GET k return v2.
C5_SetReplaces ==
    last.cmd = "SET" =>
        LET k == last.key
            v == last.args[1]
        IN  /\ last.res = OK
            /\ k \in DOMAIN data
            /\ data[k] = StrVal(v)
            /\ k \notin DOMAIN expirations
            /\ command_get(data, expirations, now, k).res = PyStr(v)
            /\ command_ttl(data, expirations, now, k).res = PyInt(-1)
            /\ \A v2 \in Values :
                 LET s2 == command_set(data, expirations, now, k, v2, <<>>)
                 IN  /\ s2.res = OK
                     /\ command_get(s2.data, s2.exp, now, k).res = PyStr(v2)

\* SET without EX has just replaced a list whose deadline had already passed
C5_Witness ==
    /\ last.cmd = "SET"
    /\ last.preT = "list"
    /\ last.preD = "past"
    /\ last.res = OK

\* C6: SET k v EX ms with ms not an integer or not positive fails with
\* "ERROR: Invalid expiration time format." and leaves k absent from data and
\* expirations, whatever k held; with a positive ms the reply is "OK", k holds
\* Str v and its deadline is now + ms milliseconds.
C6_SetExValidation ==
    last.cmd = "SETEX" =>
        LET k == last.key
            v == last.args[1]
            ms == last.args[2]
        IN  IF ms \in {"100", "1500"}
            THEN /\ last.res = OK
                 /\ k \in DOMAIN data
                 /\ data[k] = StrVal(v)
                 /\ k \in DOMAIN expirations
                 /\ expirations[k] = now + (IF ms = "100" THEN 100 ELSE 1500)
            ELSE /\ last.res = PyStr("ERROR: Invalid expiration time format.")
                 /\ k \notin DOMAIN data
                 /\ k \notin DOMAIN expirations

\* SET with a non-positive EX has just removed a live list that had a deadline
C6_Witness ==
    /\ last.cmd = "SETEX"
    /\ last.args[2] = "0"
    /\ last.preT = "list"
    /\ last.preD = "ahead"
    /\ last.key \notin DOMAIN data

\* the reads of C7 at the present instant
ReadsOf(k) ==
    {command_get(data, expirations, now, k), command_ttl(data, expirations, now, k)}
    \cup {command_hget(data, expirations, now, k, f) : f \in Fields}
    \cup {command_lrange(data, expirations, now, k, a, b) :
              a \in IndexTokens \cap IntTokens, b \in IndexTokens \cap IntTokens}

AbsentAnswer(cmd) ==
    CASE cmd = "GET" -> PyNone
      [] cmd = "HGET" -> PyNone
      [] cmd = "LRANGE" -> PyList(<<>>)
      [] cmd = "TTL" -> PyInt(-2)
      [] OTHER -> PyNone

\* C7: a key whose deadline lies strictly in the past is absent to every
\* access: GET and HGET return None, LRANGE (with integer indices) returns the
\* empty list, TTL returns -2, and the access removes the key from data and
\* from expirations.
C7_ExpiredIsAbsent ==
    /\ \A k \in Keys :
         (k \in DOMAIN expirations /\ expirations[k] < now) =>
            /\ command_get(data, expirations, now, k).res = PyNone
            /\ command_ttl(data, expirations, now, k).res = PyInt(-2)
            /\ \A f \in Fields : command_hget(data, expirations, now, k, f).res = PyNone
            /\ \A r \in ReadsOf(k) :
                 /\ k \notin DOMAIN r.data
                 /\ k \notin DOMAIN r.exp
                 /\ r.res \in {PyNone, PyList(<<>>), PyInt(-2)}
    /\ (/\ last.cmd \in {"GET", "HGET", "LRANGE", "TTL"}
        /\ last.preD = "past"
        /\ last.cmd = "LRANGE" => (IsInt(last.args[1]) /\ IsInt(last.args[2])))
       => /\ last.res = AbsentAnswer(last.cmd)
          /\ last.key \notin DOMAIN data
          /\ last.key \notin DOMAIN expirations

\* LRANGE has just met a list whose deadline had passed
C7_Witness ==
    /\ last.cmd = "LRANGE"
    /\ last.preT = "list"
    /\ last.preD = "past"
    /\ last.res = PyList(<<>>)
    /\ last.key \notin DOMAIN data

\* C8 as claimed: TTL of an existing key with a deadline ahead is a strictly
\* positive integer, and right after SET k v EX 100 it lies in (0,1].
C8_TtlStrictlyPositive ==
    /\ (last.cmd = "TTL" /\ last.preT # "none" /\ last.preD = "ahead")
       => (last.res.kind = "int" /\ last.res.n > 0)
    /\ (last.cmd = "SETEX" /\ last.args[2] = "100")
       => LET n == command_ttl(data, expirations, now, last.key).res.n
          IN  0 < n /\ n <= 1

\* C8 as amended: TTL of an existing key with a deadline ahead is the floor of
\* the seconds remaining, which is 0 while less than one second remains; right
\* after SET k v EX 100 it is 0.
C8_TtlFloor ==
    /\ (last.cmd = "TTL" /\ last.preT # "none" /\ last.preD = "ahead")
       => /\ last.key \in DOMAIN expirations
          /\ last.res.kind = "int"
          /\ last.res.n >= 0
          /\ last.res.n * MsPerSec <= expirations[last.key] - now
          /\ expirations[last.key] - now < (last.res.n + 1) * MsPerSec
    /\ (last.cmd = "SETEX" /\ last.args[2] = "100")
       => command_ttl(data, expirations, now, last.key).res = PyInt(0)

\* TTL has just answered 0 for a key whose deadline is still ahead
C8_Witness ==
    /\ last.cmd = "TTL"
    /\ last.preT # "none"
    /\ last.preD = "ahead"
    /\ last.res = PyInt(0)

\* C9: a key never given to EXPIRE or to SET with EX has TTL -1 while it
\* exists and -2 while it does not, after any sequence of commands.
C9_UntouchedTtl ==
    /\ \A k \in Keys \ touched :
         command_ttl(data, expirations, now, k).res =
            IF k \in DOMAIN data THEN PyInt(-1) ELSE PyInt(-2)
    /\ (last.cmd = "TTL" /\ last.key \notin touched)
       => last.res = IF last.preT # "none" THEN PyInt(-1) ELSE PyInt(-2)

\* TTL has just answered -1 for a hash that never had a deadline set
C9_Witness ==
    /\ last.cmd = "TTL"
    /\ last.key \notin touched
    /\ last.preT = "hash"
    /\ last.res = PyInt(-1)

NonPositive(s) == IsInt(s) /\ ParseInt(s) <= 0

\* C10 as claimed: EXPIRE k seconds with seconds <= 0 on a live key makes the
\* key persistent and returns 1 whether or not the key had a deadline.
C10_ExpireNonPositiveReturnsOne ==
    (last.cmd = "EXPIRE" /\ NonPositive(last.args[1]) /\ LiveBefore)
    => /\ last.res = PyInt(1)
       /\ last.key \notin DOMAIN expirations
       /\ command_ttl(data, expirations, now, last.key).res = PyInt(-1)

\* C10 as amended: EXPIRE k seconds with seconds <= 0 on a live key makes the
\* key persistent (TTL -1) and returns 1 when it removed a deadline, 0 when the
\* key had none.
C10_ExpireNonPositive ==
    (last.cmd = "EXPIRE" /\ NonPositive(last.args[1]) /\ LiveBefore)
    => /\ last.res = PyInt(IF last.preD = "none" THEN 0 ELSE 1)
       /\ last.key \in DOMAIN data
       /\ last.key \notin DOMAIN expirations
       /\ command_ttl(data, expirations, now, last.key).res = PyInt(-1)

\* EXPIRE k 0 has just removed the deadline of a live key
C10_Witness ==
    /\ last.cmd = "EXPIRE"
    /\ last.args[1] = "0"
    /\ last.preT = "str"
    /\ last.preD = "ahead"
    /\ last.res = PyInt(1)
    /\ last.key \notin DOMAIN expirations

\* the key a step's call named, and whether it was resident and past its
\* deadline, or resident and not past it, when the call began
Resident(k) == k \in DOMAIN data
PastDeadline(k) == k \in DOMAIN expirations /\ expirations[k] < now
LiveNow(k) == Resident(k) /\ ~PastDeadline(k)

\* the stored list or hash of a live key, empty when the key is absent or past
\* its deadline
ListBefore(k) == IF LiveNow(k) THEN data[k].l ELSE <<>>
HashBefore(k) == IF LiveNow(k) THEN data[k].h ELSE EmptyHash

C11_Step ==
    last'.cmd = "EXPIRE" =>
        LET k == last'.key
            s == last'.args[1]
        IN  /\ ~Resident(k)
               => /\ last'.res = PyInt(0)
                  /\ data' = data
                  /\ expirations' = expirations
            /\ (Resident(k) /\ PastDeadline(k))
               => /\ last'.res = PyInt(0)
                  /\ data' = DictDel(data, k)
                  /\ expirations' = DictDel(expirations, k)
            /\ (LiveNow(k) /\ IsInt(s) /\ ParseInt(s) > 0)
               => /\ last'.res = PyInt(1)
                  /\ data' = data
                  /\ expirations' = DictSet(expirations, k, now + ParseInt(s) * MsPerSec)

\* C11: EXPIRE k seconds returns 0 and changes nothing when k is absent,
\* returns 0 after lazily removing k when k is resident but past its deadline,
\* and with seconds > 0 on a live key of any shape sets the deadline to
\* now + seconds, replacing an earlier one, and returns 1.
C11_Expire == [][C11_Step]_vars

\* EXPIRE k 1 has just replaced the earlier deadline of a live hash
C11_Witness ==
    /\ last.cmd = "EXPIRE"
    /\ last.args[1] = "1"
    /\ last.preT = "hash"
    /\ last.preD = "ahead"
    /\ last.res = PyInt(1)
    /\ expirations[last.key] = now + MsPerSec

\* the keys a DEL step names
DelKeys == {last'.args[i] : i \in 1..Len(last'.args)}

C12_Step_AsClaimed ==
    last'.cmd = "DEL" =>
        last'.res = PyInt(Cardinality({k \in DelKeys : Resident(k)}))

\* C12 as claimed: DEL counts every key it removes from the store, a key
\* resident but past its deadline included.
C12_DelCountsExpired == [][C12_Step_AsClaimed]_vars

C12_Step ==
    last'.cmd = "DEL" =>
        /\ \A k \in DelKeys :
               (Resident(k) /\ PastDeadline(k))
               => (k \notin DOMAIN data' /\ k \notin DOMAIN expirations')
        /\ last'.res = PyInt(Cardinality({k \in DelKeys : Resident(k)})
                             - Cardinality({k \in DelKeys : Resident(k) /\ PastDeadline(k)}))

\* C12 as amended: DEL removes a key that is resident but past its deadline
\* from data and expirations without counting it; only the keys it removes
\* that were not past their deadline contribute to the returned count.
C12_DelSkipsExpired == [][C12_Step]_vars

\* DEL has just named one key that was resident but past its deadline, and
\* answered 0
C12_Witness ==
    /\ last.cmd = "DEL"
    /\ Len(last.args) = 1
    /\ last.preT = "str"
    /\ last.preD = "past"
    /\ last.res = PyInt(0)
    /\ last.key \notin DOMAIN data

C13_Step ==
    last'.cmd = "DEL" =>
        /\ last'.res = PyInt(Cardinality({k \in DelKeys : LiveNow(k)}))
        /\ \A k \in DelKeys : k \notin DOMAIN data' /\ k \notin DOMAIN expirations'

\* C13: DEL k1..kn returns the number of distinct argument keys that were live
\* before the call, and afterwards every argument key is absent from data and
\* from expirations.
C13_DelCount == [][C13_Step]_vars

\* DEL has just named two distinct live keys and answered 2
C13_Witness ==
    /\ last.cmd = "DEL"
    /\ Len(last.args) = 2
    /\ last.preLive = {"k1", "k2"}
    /\ last.res = PyInt(2)
    /\ DOMAIN data = {}

\* DEL has just named the same live key twice and answered 1
C13_WitnessRepeated ==
    /\ last.cmd = "DEL"
    /\ last.args = <<"k1", "k1">>
    /\ last.preLive = {"k1"}
    /\ last.res = PyInt(1)

C14_Step_AsClaimed ==
    (last'.cmd = "LPUSH" /\ last'.res.kind = "int") =>
        LET k == last'.key
            front == Reversed(last'.args) \o ListBefore(k)
        IN  /\ data'[k] = ListVal(front)
            /\ command_lrange(data', expirations', now, k, "0", "-1").res = PyList(front)

\* C14 as claimed: LPUSH k v1..vn inserts the values at the front one at a
\* time in argument order, so afterwards the list is vn..v1 followed by the
\* previous contents, both when k is absent or just expired and when k is an
\* existing list; LRANGE k 0 -1 returns it.
C14_LpushFrontInserts == [][C14_Step_AsClaimed]_vars

\* the inclusive slice [start, stop] of q: negative indices normalised by
\* adding the length, bounds clamped to [0, n-1], empty when out of range or
\* inverted
InclusiveSlice(q, start, stop) ==
    LET n == Len(q)
        s0 == IF start < 0 THEN start + n ELSE start
        e0 == IF stop < 0 THEN stop + n ELSE stop
        lo == IF s0 < 0 THEN 0 ELSE s0
        hi == IF e0 > n - 1 THEN n - 1 ELSE e0
    IN  IF lo > hi \/ lo > n - 1 \/ hi < 0 THEN <<>> ELSE SubSeq(q, lo + 1, hi + 1)

IntegerRange == IsInt(last.args[1]) /\ IsInt(last.args[2])

\* C15 as claimed: LRANGE k start stop on a live list of length n returns
\* exactly the inclusive slice [start, stop] after normalising negative indices
\* and clamping, and the empty sequence for every out-of-range or inverted
\* range, a stop below -n included, for all integer start and stop.
C15_LrangeInclusiveSlice ==
    (last.cmd = "LRANGE" /\ IntegerRange /\ last.preT = "list" /\ LiveBefore)
    => last.res = PyList(InclusiveSlice(data[last.key].l,
                                        ParseInt(last.args[1]), ParseInt(last.args[2])))

\* C16 as claimed: LRANGE on a nonexistent or expired key returns an empty
\* sequence, never an error, whatever start and stop are.
C16_LrangeMissingNeverError ==
    (last.cmd = "LRANGE" /\ ~LiveBefore) => last.res = PyList(<<>>)

\* C16 as amended: LRANGE on a nonexistent or expired key returns an empty
\* sequence when start and stop are integers, and then the key is in neither
\* data nor expirations; with a start or stop that is not an integer it
\* returns the integer error and leaves the key as it was.
C16_LrangeMissing ==
    (last.cmd = "LRANGE" /\ ~LiveBefore)
    => IF IntegerRange
       THEN /\ last.res = PyList(<<>>)
            /\ last.key \notin DOMAIN data
            /\ last.key \notin DOMAIN expirations
       ELSE /\ last.res = PyStr("ERROR: value is not an integer or out of range")
            /\ ShapeOf(data, last.key) = last.preT

\* LRANGE k 0 -1 has just answered the empty list for a list past its deadline
C16_Witness ==
    /\ last.cmd = "LRANGE"
    /\ last.args = <<"0", "-1">>
    /\ last.preT = "list"
    /\ last.preD = "past"
    /\ last.res = PyList(<<>>)
    /\ last.key \notin DOMAIN data

\* a live key holds a value of another shape than shape
HoldsOther(k, shape) == LiveNow(k) /\ data[k].t # shape

C17_Step ==
    (last'.cmd = "RPUSH" /\ last'.args # <<>> /\ ~HoldsOther(last'.key, "list")) =>
        LET k == last'.key
            back == ListBefore(k) \o last'.args
        IN  /\ data'[k] = ListVal(back)
            /\ last'.res = PyInt(Len(back))
            /\ command_lrange(data', expirations', now, k, "0", "-1").res = PyList(back)
            /\ expirations' = IF LiveNow(k) THEN expirations ELSE DictDel(expirations, k)

\* C17: RPUSH k v1..vn appends the values at the back in argument order and
\* returns the new list length, creating the list when k is absent or past
\* its deadline; the earlier elements stay in front in their order, and
\* LRANGE k 0 -1 returns the whole list.
C17_RpushAppends == [][C17_Step]_vars

\* RPUSH has just appended two values behind the one element of a live list
C17_Witness ==
    /\ last.cmd = "RPUSH"
    /\ Len(last.args) = 2
    /\ last.preT = "list"
    /\ LiveBefore
    /\ last.res = PyInt(3)
    /\ SubSeq(data[last.key].l, 2, 3) = last.args

C18_Step ==
    (last'.cmd = "HSET" /\ ~HoldsOther(last'.key, "hash")) =>
        LET k == last'.key
            field == last'.args[1]
            value == last'.args[2]
            h == HashBefore(k)
        IN  /\ last'.res = PyInt(IF field \in DOMAIN h THEN 0 ELSE 1)
            /\ command_hget(data', expirations', now, k, field).res = PyStr(value)
            /\ DOMAIN data'[k].h = DOMAIN h \cup {field}
            /\ \A f \in DOMAIN h \ {field} : data'[k].h[f] = h[f]

\* C18: HSET k f v returns 1 exactly when f was not in the hash before the
\* call, the hash being created when k was absent or past its deadline, and 0
\* when it overwrote f; either way HGET k f then returns v and every other
\* field of k is as it was.
C18_HsetNewField == [][C18_Step]_vars

\* HSET has just overwritten one field of a live hash of two fields
C18_Witness ==
    /\ last.cmd = "HSET"
    /\ last.preT = "hash"
    /\ LiveBefore
    /\ last.res = PyInt(0)
    /\ DOMAIN data[last.key].h = Fields
    /\ data[last.key].h[last.args[1]] = last.args[2]

C19_Step ==
    (last'.cmd = "HDEL" /\ last'.args # <<>>
        /\ LiveNow(last'.key) /\ data[last'.key].t = "hash") =>
        LET k == last'.key
            fs == {last'.args[i] : i \in 1..Len(last'.args)}
            h == data[k].h
            rest == DOMAIN h \ fs
        IN  /\ last'.res = PyInt(Cardinality(fs \cap DOMAIN h))
            /\ IF rest = {}
               THEN /\ k \notin DOMAIN data'
                    /\ k \notin DOMAIN expirations'
                    /\ command_ttl(data', expirations', now, k).res = PyInt(-2)
               ELSE /\ data'[k] = HashVal([f \in rest |-> h[f]])
                    /\ expirations' = expirations

ExpectedShape(cmd) ==
    CASE cmd = "GET" -> "str"
      [] cmd \in {"LPUSH", "RPUSH", "LRANGE"} -> "list"
      [] cmd \in {"HSET", "HGET", "HDEL"} -> "hash"

\* the call passes the command's own checks of its arguments: at least one
\* value or field, integer start and stop
WellFormed(cmd, args) ==
    CASE cmd \in {"LPUSH", "RPUSH", "HDEL"} -> args # <<>>
      [] cmd = "LRANGE" -> IsInt(args[1]) /\ IsInt(args[2])
      [] OTHER -> TRUE

TypedCommands == {"GET", "LPUSH", "RPUSH", "LRANGE", "HSET", "HGET", "HDEL"}

C20_Step ==
    (/\ last'.cmd \in TypedCommands
     /\ WellFormed(last'.cmd, last'.args)
     /\ HoldsOther(last'.key, ExpectedShape(last'.cmd)))
    => /\ last'.res = PyStr("ERROR: " \o WRONGTYPE)
       /\ data' = data
       /\ expirations' = expirations

\* C20: GET, LPUSH, RPUSH, LRANGE, HSET, HGET or HDEL, called with arguments
\* that pass its own checks, on a live key holding another shape than the one
\* it expects returns exactly "ERROR: WRONGTYPE Operation against a key
\* holding the wrong kind of value" and leaves data and expirations unchanged.
C20_WrongType == [][C20_Step]_vars

\* GET has just been refused on a live list that has a deadline
C20_Witness ==
    /\ last.cmd = "GET"
    /\ last.preT = "list"
    /\ last.preD = "ahead"
    /\ last.res = PyStr("ERROR: " \o WRONGTYPE)
    /\ ShapeOf(data, last.key) = "list"
    /\ last.key \in DOMAIN expirations

\* the last call had an argument that is not an integer where the command
\* requires one
NonIntegerCall ==
    \/ last.cmd = "LRANGE" /\ ~IntegerRange
    \/ last.cmd = "EXPIRE" /\ ~IsInt(last.args[1])
    \/ last.cmd = "SETEX" /\ ~IsInt(last.args[2])

\* the error strings the store's commands return
StoreErrors ==
    { "ERROR: value is not an integer or out of range",
      "ERROR: Invalid expiration time format.",
      "ERROR: " \o WRONGTYPE,
      "ERROR: wrong number of arguments for 'lpush' command",
      "ERROR: wrong number of arguments for 'rpush' command",
      "ERROR: wrong number of arguments for 'hdel' command" }

\* C21 as claimed: a non-integer argument where an integer is required
\* (LRANGE start/stop, EXPIRE seconds, SET EX milliseconds) is reported as an
\* error string by the command, not as a normal result value.
C21_NonIntegerIsError ==
    NonIntegerCall => (last.res.kind = "str" /\ last.res.s \in StoreErrors)

C21_Step ==
    /\ (last'.cmd = "LRANGE" /\ ~(IsInt(last'.args[1]) /\ IsInt(last'.args[2])))
       => /\ last'.res = PyStr("ERROR: value is not an integer or out of range")
          /\ data' = data
          /\ expirations' = expirations
    /\ (last'.cmd = "SETEX" /\ ~IsInt(last'.args[2]))
       => /\ last'.res = PyStr("ERROR: Invalid expiration time format.")
          /\ last'.key \notin DOMAIN data'
    /\ (last'.cmd = "EXPIRE" /\ ~IsInt(last'.args[1]))
       => /\ last'.res = PyInt(0)
          /\ LiveNow(last'.key) => (data' = data /\ expirations' = expirations)

\* C21 as amended: LRANGE with a non-integer start or stop returns the error
\* string "ERROR: value is not an integer or out of range" and SET with a
\* non-integer EX returns "ERROR: Invalid expiration time format."; EXPIRE
\* with non-integer seconds returns the integer 0, the value it also returns
\* for a missing key, and leaves a live key and its deadline as they were.
C21_NonInteger == [][C21_Step]_vars

\* EXPIRE k abc has just answered 0 for a live string that has a deadline
C21_Witness ==
    /\ last.cmd = "EXPIRE"
    /\ last.args[1] = "abc"
    /\ last.preT = "str"
    /\ last.preD = "ahead"
    /\ last.res = PyInt(0)
    /\ last.key \in DOMAIN expirations

\* C25: after any sequence of store commands and time advances every key in
\* expirations is also a key in data.
C25_ExpirationsSubset == DOMAIN expirations \subseteq DOMAIN data

\* a read has just removed a key past its deadline from data and expirations
C25_Witness ==
    /\ last.cmd \in {"GET", "HGET", "TTL"}
    /\ last.preT # "none"
    /\ last.preD = "past"
    /\ last.key \notin DOMAIN data
    /\ last.key \notin DOMAIN expirations

C28_Step ==
    LET k == last'.key
    IN  (LiveNow(k) /\ k \in DOMAIN data' /\ data'[k].t # data[k].t)
        => last'.cmd \in {"SET", "SETEX"}

C28_Creates ==
    LET k == last'.key
    IN  (/\ last'.cmd \in {"LPUSH", "RPUSH", "HSET"}
         /\ k \in DOMAIN data'
         /\ data'[k].t # ShapeOf(data, k))
        => /\ ~LiveNow(k)
           /\ data'[k].t = ExpectedShape(last'.cmd)
           /\ k \notin DOMAIN expirations'

\* C28: a live key never changes shape except through SET: in every step
\* where k is live before and present afterwards with another shape the
\* command was SET k; LPUSH, RPUSH and HSET give k a new shape only when k was
\* absent or was past its deadline and removed by that same command.
C28_ShapeOnlyBySet == [][C28_Step /\ C28_Creates]_vars

\* SET has just replaced a live list by a string
C28_Witness ==
    /\ last.cmd = "SET"
    /\ last.preT = "list"
    /\ LiveBefore
    /\ ShapeOf(data, last.key) = "str"

\* C29 as claimed: whenever TTL k returns -2, GET k, LRANGE k 0 -1 and HGET k f
\* at the same clock instant, with no command in between, return nil or the
\* empty list, never the stored value; also at the instant equal to the
\* deadline.
C29_TtlAgreesWithReads ==
    (last.cmd = "TTL" /\ last.res = PyInt(-2)) =>
        /\ last.preT = "str"
           => command_get(data, expirations, now, last.key).res = PyNone
        /\ last.preT = "list"
           => command_lrange(data, expirations, now, last.key, "0", "-1").res = PyList(<<>>)
        /\ last.preT = "hash"
           => \A f \in Fields :
                  command_hget(data, expirations, now, last.key, f).res = PyNone

----------------------------------------------------------------------------
(* Claims about the dispatcher *)

TableCommands == {"SET", "GET", "DEL", "LPUSH", "RPUSH", "LRANGE", "HSET", "HGET",
                  "HDEL", "TTL", "EXPIRE", "PING"}
ServerCommands == TableCommands \cup {"COMMAND", "QUIT", "SAVE"}

\* the argument counts the command table declares
ValidArity(command, args) ==
    CASE command = "SET" -> Len(args) = 2 \/ (Len(args) = 4 /\ Upper(args[3]) = "EX")
      [] command \in {"GET", "TTL"} -> Len(args) = 1
      [] command = "DEL" -> Len(args) >= 1
      [] command \in {"LPUSH", "RPUSH", "HDEL"} -> Len(args) >= 2
      [] command \in {"LRANGE", "HSET"} -> Len(args) = 3
      [] command \in {"HGET", "EXPIRE"} -> Len(args) = 2
      [] OTHER -> TRUE

\* the store operation the command table gives a command with a valid arity
TableOp(command, args, d, e, t) ==
    CASE command = "SET" ->
            command_set(d, e, t, args[1], args[2],
                        IF Len(args) = 2 THEN <<>> ELSE <<args[4]>>)
      [] command = "GET" -> command_get(d, e, t, args[1])
      [] command = "DEL" -> command_del(d, e, t, args)
      [] command = "LPUSH" -> command_lpush(d, e, t, args[1], Tail(args))
      [] command = "RPUSH" -> command_rpush(d, e, t, args[1], Tail(args))
      [] command = "LRANGE" -> command_lrange(d, e, t, args[1], args[2], args[3])
      [] command = "HSET" -> command_hset(d, e, t, args[1], args[2], args[3])
      [] command = "HGET" -> command_hget(d, e, t, args[1], args[2])
      [] command = "HDEL" -> command_hdel(d, e, t, args[1], Tail(args))
      [] command = "TTL" -> command_ttl(d, e, t, args[1])
      [] command = "EXPIRE" -> command_expire(d, e, t, args[1], args[2])
      [] OTHER -> Ret(d, e, PyStr("PONG"))

\* str.lower() on the command names
Lower(s) ==
    CASE s = "SET" -> "set" [] s = "GET" -> "get" [] s = "DEL" -> "del"
      [] s = "LPUSH" -> "lpush" [] s = "RPUSH" -> "rpush" [] s = "LRANGE" -> "lrange"
      [] s = "HSET" -> "hset" [] s = "HGET" -> "hget" [] s = "HDEL" -> "hdel"
      [] s = "TTL" -> "ttl" [] s = "EXPIRE" -> "expire" [] OTHER -> s

\* connection c has run its line under the lock and not yet released it
Ran(c) == pc[c] = "unlock"
\* connection c has written the reply of its line
Replied(c) == pc[c] = "split" /\ cur[c] # <<>> /\ out[c] # <<>>

\* C1: a line naming a command of the table with a valid argument count runs
\* that command's store operation on the shared store, and the reply is the
\* rendering of its result (PONG for PING).
C1_DispatchRunsCommand ==
    \A c \in Conns :
        LET command == CommandOf(cur[c])
            args == ArgsOf(cur[c])
            r == TableOp(command, args, seen[c].data, seen[c].exp, now)
        IN  /\ (Ran(c) /\ command \in TableCommands /\ ValidArity(command, args))
               => /\ data = r.data
                  /\ expirations = r.exp
                  /\ response[c] = r.res
            /\ (Replied(c) /\ command \in TableCommands /\ ValidArity(command, args))
               => out[c][Len(out[c])] = Render(r.res)

\* C2: a line naming a known command with a wrong argument count is answered
\* "ERROR: wrong number of arguments for '<command>' command", and the store
\* is as it was.
C2_ArityError ==
    \A c \in Conns :
        LET command == CommandOf(cur[c])
            args == ArgsOf(cur[c])
        IN  (Ran(c) /\ command \in TableCommands /\ ~ValidArity(command, args))
            => /\ response[c] = PyStr("ERROR: wrong number of arguments for '"
                                      \o Lower(command) \o "' command")
               /\ data = seen[c].data
               /\ expirations = seen[c].exp

\* C3: a line whose first token, uppercased, names no command is answered
\* "ERROR: Unknown command '<command>'", and the store is as it was.
C3_UnknownCommand ==
    \A c \in Conns :
        LET command == CommandOf(cur[c])
        IN  (Ran(c) /\ command \notin ServerCommands)
            => /\ response[c] = PyStr("ERROR: Unknown command '" \o command \o "'")
               /\ data = seen[c].data
               /\ expirations = seen[c].exp

----------------------------------------------------------------------------
(* Claims about concurrency *)

\* every line written has been served
Quiescent ==
    \A c \in Conns : pc[c] = "recv" /\ sock[c] = <<>> /\ buffer[c] = <<>>

RECURSIVE OneAtATime(_, _, _, _)
\* the stores and replies reached when the lines rem[c] of the connections
\* are served one whole line at a time, in every order that keeps each
\* connection's own order
OneAtATime(d, e, rem, replies) ==
    IF \A c \in Conns : rem[c] = <<>>
    THEN {[data |-> d, exp |-> e, out |-> replies]}
    ELSE UNION { LET line == Head(rem[c])
                     r == Dispatch(CommandOf(line), ArgsOf(line), d, e, now)
                 IN  OneAtATime(r.data, r.exp, [rem EXCEPT ![c] = Tail(@)],
                                [replies EXCEPT ![c] = Append(@, Render(r.res))])
                 : c \in {x \in Conns : rem[x] # <<>>} }

Names(line, k) == Len(line) >= 2 /\ line[2] = k
Writes(line, k) == Names(line, k) /\ CommandOf(line) \in {"SET", "DEL"}

\* connection c was the only one to name key k, and its last write of k was a SET
OwnSet(c, k) ==
    LET w == {i \in 1..Len(sent[c]) : Writes(sent[c][i], k)}
    IN  /\ w # {}
        /\ CommandOf(sent[c][CHOOSE i \in w : \A j \in w : j <= i]) = "SET"
        /\ \A o \in Conns \ {c} : \A i \in 1..Len(sent[o]) : ~Names(sent[o][i], k)

LastSetValue(c, k) ==
    LET w == {i \in 1..Len(sent[c]) : Writes(sent[c][i], k)}
    IN  sent[c][CHOOSE i \in w : \A j \in w : j <= i][3]

\* C4: once every line has been served, the store and the replies of every
\* connection are those of serving the same lines one at a time in some
\* order, and a key set by one connection only holds the last value it set.
C4_Serialized ==
    Quiescent =>
        /\ [data |-> data, exp |-> expirations, out |-> out]
              \in OneAtATime([k \in {} |-> NoVal], [k \in {} |-> 0], sent,
                             [c \in Conns |-> <<>>])
        /\ \A c \in Conns, k \in Keys :
              OwnSet(c, k) => (k \in DOMAIN data /\ data[k] = StrVal(LastSetValue(c, k)))

\* both connections have had a DEL and a SET of the same key served
C4_Witness ==
    /\ Quiescent
    /\ sent["c1"] = << <<"DEL", "k1">>, <<"SET", "k1", "a">> >>
    /\ sent["c2"] = << <<"DEL", "k1">>, <<"SET", "k1", "b", "EX", "100">> >>
    /\ Len(out["c1"]) = 2
    /\ Len(out["c2"]) = 2

----------------------------------------------------------------------------
(* Claims about the wire *)

\* the decimal digits of the integers the commands return
Decimal(n) ==
    CASE n = -2 -> "-2" [] n = -1 -> "-1" [] n = 0 -> "0" [] n = 1 -> "1"
      [] n = 2 -> "2" [] n = 3 -> "3" [] n = 4 -> "4" [] n = 5 -> "5"

RECURSIVE NewlineJoined(_)
\* the elements with one newline between neighbours
NewlineJoined(q) ==
    IF Len(q) = 0 THEN ""
    ELSE IF Len(q) = 1 THEN q[1]
    ELSE NewlineJoined(SubSeq(q, 1, Len(q) - 1)) \o "\n" \o q[Len(q)]

\* the reply the rendering rule prescribes for a result
ExpectedReply(r) ==
    CASE r.kind = "none" -> "Nil\n"
      [] r.kind = "list" -> NewlineJoined(r.l) \o "\n"
      [] r.kind = "int" -> ":" \o Decimal(r.n) \o "\n"
      [] r.kind = "str" -> r.s \o "\n"

\* connection c writes a reply in this step
Replies(c) == pc[c] = "reply" /\ pc'[c] = "split"

C22_Step ==
    \A c \in Conns :
        Replies(c) => out'[c] = Append(out[c], ExpectedReply(response[c]))

\* C22: the reply written for a command result is the literal "Nil" for nil,
\* the elements newline-joined for a sequence, the decimal number with a
\* leading ':' for an integer, and the string verbatim for everything else,
\* each followed by one newline.
C22_Render == [][C22_Step]_vars

\* a sequence of two elements has just been written one element per line
C22_Witness ==
    \E c \in Conns :
        /\ pc[c] = "split"
        /\ response[c] = PyList(<<"a", "b">>)
        /\ out[c] = <<"a\nb\n">>

\* connection c has written the rendering of response[c] as its latest reply
Rendered(c) == pc[c] = "split" /\ out[c] # <<>>

\* the kind of result connection c rendered last
KindOf(c) ==
    CASE response[c].kind = "none" -> "nil"
      [] response[c].kind = "int" -> "integer"
      [] response[c].kind = "list" -> "sequence"
      [] response[c].kind = "str" ->
            IF CommandOf(cur[c]) = "GET" /\ response[c].s \in StoredStrings
            THEN "stored string"
            ELSE IF CommandOf(cur[c]) = "SET" /\ response[c].s = "OK"
            THEN "status"
            ELSE "error"

\* C30 as claimed: two command results of different kinds (nil, integer,
\* sequence, error, stored string) never produce the same reply bytes.
C30_KindsDistinguishable ==
    \A c \in Conns, d \in Conns :
        (Rendered(c) /\ Rendered(d) /\ KindOf(c) # KindOf(d))
        => out[c][Len(out[c])] # out[d][Len(out[d])]

\* the handler of c has served QUIT and closed
QuitServed(c) == pc[c] = "closed" /\ cur[c] # <<>> /\ CommandOf(cur[c]) = "QUIT"

\* the handler of c is between taking QUIT from the buffer and answering it
ServingQuit(c) ==
    /\ pc[c] \in {"lock", "exec", "unlock", "reply"}
    /\ CommandOf(cur[c]) = "QUIT"

C23_Step ==
    \A c \in Conns :
        /\ ServingQuit(c)
           => /\ pc'[c] # pc[c] => (storeVars' = storeVars /\ disk' = disk)
              /\ pc'[c] \in {"lock", "exec", "unlock", "reply", "closed"}
              /\ cur'[c] = cur[c]
              /\ buffer'[c] = buffer[c]
              /\ pc'[c] = "closed"
                 => /\ out'[c] = Append(out[c], "OK\n")
                    /\ store_lock' # c
                    /\ \A d \in Conns \ {c} :
                         /\ pc'[d] = pc[d]
                         /\ buffer'[d] = buffer[d]
                         /\ out'[d] = out[d]
                         /\ sock'[d] = sock[d]
        /\ QuitServed(c)
           => /\ pc'[c] = "closed"
              /\ cur'[c] = cur[c]
              /\ buffer'[c] = buffer[c]
              /\ out'[c] = out[c]
              /\ store_lock' # c

\* C23: on QUIT the handler writes "OK" and closes the connection at once; no
\* line that follows QUIT on that connection, buffered already or sent later,
\* is ever dispatched, and the store and the other connections are as they
\* were.
C23_QuitCloses == [][C23_Step]_vars

\* QUIT has closed connection c1 with a command still in its buffer, and the
\* other connection has been answered
C23_Witness ==
    /\ QuitServed("c1")
    /\ buffer["c1"] # <<>>
    /\ Head(buffer["c1"]) # <<>>
    /\ out["c1"][Len(out["c1"])] = "OK\n"
    /\ out["c2"] # <<>>

\* the lines of q that are commands: not blank, not the end of the stream
Commands(q) == SelectSeq(q, LAMBDA x : x # <<>> /\ x # EOF)

\* the handler of c has taken a line from the buffer and not yet answered it
InFlight(c) == pc[c] \in {"lock", "exec", "set2", "unlock", "reply", "save", "saving"}

\* C24 as claimed: on one connection every non-empty line is dispatched
\* exactly once, in the order received, and answered before the next line is
\* dispatched, however the bytes are split across reads; a blank line gives no
\* dispatch and no reply.  As a state property: the commands sent are, in
\* order, those answered, the one being served, and those still pending; and
\* a connection closes with a command pending only after QUIT.
C24_EveryLineDispatchedOnce ==
    \A c \in Conns :
        LET S == Commands(sent[c])
            P == Commands(buffer[c] \o sock[c])
            k == Len(out[c])
            f == IF InFlight(c) THEN 1 ELSE 0
        IN  /\ Len(S) = k + f + Len(P)
            /\ SubSeq(S, k + f + 1, Len(S)) = P
            /\ InFlight(c) => cur[c] = S[k + 1]
            /\ (pc[c] = "closed" /\ ~QuitServed(c)) => P = <<>>

\* the handler of c is inside the with block of the lock
InStore(c) == pc[c] \in {"exec", "set2", "unlock", "saving"}

\* C26: at most one handler, or the SAVE snapshot, is executing against the
\* store at any time: a handler inside its store operation holds the one
\* store lock, and a handler that is reading, waiting, or about to write its
\* reply does not.
C26_OneAtATime ==
    /\ \A c \in Conns : InStore(c) <=> store_lock = c
    /\ \A c \in Conns, d \in Conns : (InStore(c) /\ InStore(d)) => c = d
    /\ store_lock = NoConn => \A c \in Conns : ~InStore(c)

\* c1 is in the middle of SET, holding the lock, while c2 waits to save
C26_Witness ==
    /\ pc["c1"] = "set2"
    /\ store_lock = "c1"
    /\ pc["c2"] = "save"

\* the reply of the internal error is the latest c has written
FailureAnswered(c) ==
    /\ out[c] # <<>>
    /\ out[c][Len(out[c])] = "ERROR: Internal server error: e\n"

C27_Caught ==
    \A c \in Conns :
        (pc[c] = "reply" /\ response[c] = InternalError) => store_lock # c

C27_Step ==
    \A c \in Conns :
        (pc[c] \in {"exec", "set2"} /\ pc'[c] # pc[c] /\ response'[c] = InternalError)
        => pc'[c] = "unlock"

\* C27: a failure while a command executes becomes the reply "ERROR: Internal
\* server error: <cause>": the lock is released, the connection answers and
\* goes on to its next line, and a connection waiting for the lock gets it.
C27_FailureIsAnswered ==
    /\ []C27_Caught
    /\ [][C27_Step]_vars
    /\ \A c \in Conns :
         /\ (pc[c] = "unlock" /\ response[c] = InternalError)
            ~> (pc[c] = "split" /\ FailureAnswered(c))
         /\ (pc[c] \in {"exec", "set2"}) ~> (pc[c] \in {"split", "recv"})
         /\ (pc[c] = "lock") ~> (pc[c] = "exec")

\* c1 answered a failed command and then another command, and c2 was served
C27_Witness ==
    /\ Len(out["c1"]) = 2
    /\ out["c1"][1] = "ERROR: Internal server error: e\n"
    /\ out["c1"][2] = "OK\n"
    /\ out["c2"] # <<>>

====
